---- MODULE Spec2Model ----
(***************************************************************************)
(* Model of the job-posting service: the JobPostingServer of server.py     *)
(* (lazy load of the job list, the five query tools, the tool dispatcher), *)
(* the HTTP routes of web_server.py and the HTTP-backed tools of           *)
(* client_server.py.                                                       *)
(*                                                                         *)
(* A Python str is a sequence of one-character strings, so that lower(),   *)
(* the substring test `in`, " ".join and sorting are computed rather than  *)
(* assumed.  A Python dict with optional keys is a function whose DOMAIN   *)
(* holds the keys that are present.                                        *)
(***************************************************************************)
EXTENDS Integers, Sequences, FiniteSets, TLC

VARIABLES deployment, jobs_data, fetchCount, calls, started, crashed, request, last

vars == <<deployment, jobs_data, fetchCount, calls, started, crashed, request, last>>

----------------------------------------------------------------------------
(* Bounds of the model.                                                    *)

\* longest jobs array the data source returns
MaxJobs == 2
\* number of tool calls the tool-protocol server receives in one run
MaxCalls == 2

----------------------------------------------------------------------------
(* Strings.                                                                *)

\* the characters in code-point order (str comparison and str.lower)
Alphabet ==
  <<" ", "'", "-", "0", "1", "2", "3", "4", "5", "6", "7", "8", "9",
    "A", "B", "C", "D", "E", "F", "G", "H", "I", "J", "K", "L", "M",
    "N", "O", "P", "Q", "R", "S", "T", "U", "V", "W", "X", "Y", "Z",
    "a", "b", "c", "d", "e", "f", "g", "h", "i", "j", "k", "l", "m",
    "n", "o", "p", "q", "r", "s", "t", "u", "v", "w", "x", "y", "z">>

Chars == {Alphabet[i] : i \in DOMAIN Alphabet}

\* ord(c), up to the order of the code points
OrdOf == [c \in Chars |-> CHOOSE i \in DOMAIN Alphabet : Alphabet[i] = c]

Ord(c) == OrdOf[c]

IsUpper(c) == Ord(c) >= Ord("A") /\ Ord(c) <= Ord("Z")

\* c.lower() of one character
LowerOf ==
  [c \in Chars |->
     IF IsUpper(c) THEN Alphabet[Ord(c) + (Ord("a") - Ord("A"))] ELSE c]

LowerChar(c) == LowerOf[c]

\* str.lower()
Lower(s) == [i \in DOMAIN s |-> LowerChar(s[i])]

\* Python's `sub in s` on two str
Contains(sub, s) ==
  \E i \in 0..(Len(s) - Len(sub)) : SubSeq(s, i + 1, i + Len(sub)) = sub

\* sep.join(parts)
RECURSIVE Join(_, _)
Join(parts, sep) ==
  IF parts = <<>> THEN <<>>
  ELSE IF Len(parts) = 1 THEN parts[1]
  ELSE parts[1] \o sep \o Join(Tail(parts), sep)

\* Python's str `<`: lexicographic by code point, a proper prefix first
RECURSIVE StrLess(_, _)
StrLess(a, b) ==
  IF b = <<>> THEN FALSE
  ELSE IF a = <<>> THEN TRUE
  ELSE IF a[1] # b[1] THEN Ord(a[1]) < Ord(b[1])
  ELSE StrLess(Tail(a), Tail(b))

\* Sorted with the order turned round (reverse=True)
RECURSIVE SortedDescending(_)
SortedDescending(S) ==
  IF S = {} THEN <<>>
  ELSE LET m == CHOOSE x \in S : \A y \in S \ {x} : StrLess(y, x)
       IN  <<m>> \o SortedDescending(S \ {m})

\* sorted(list(set)): the elements of a set of str in ascending order
RECURSIVE Sorted(_)
Sorted(S) ==
  IF S = {} THEN <<>>
  ELSE LET m == CHOOSE x \in S : \A y \in S \ {x} : StrLess(x, y)
       IN  <<m>> \o Sorted(S \ {m})

Space == <<" ">>
EmptyStr == <<>>

----------------------------------------------------------------------------
(* Job records as the data source returns them (server.py reads the keys  *)
(* id, title, company, location, remote, visa_sponsorship,                 *)
(* experience_level and tech_stack).                                       *)

sAcme == <<"A", "c", "m", "e">>
sacme == <<"a", "c", "m", "e">>
sBolt == <<"B", "o", "l", "t">>
sDev == <<"D", "e", "v">>
sSRE == <<"S", "R", "E">>
sQA == <<"Q", "A">>
sRemote == <<"R", "e", "m", "o", "t", "e">>
sNYC == <<"N", "Y", "C">>
sSenior == <<"S", "e", "n", "i", "o", "r">>
sMid == <<"M", "i", "d">>
sMidSenior == <<"M", "i", "d", "-", "S", "e", "n", "i", "o", "r">>
sEntry == <<"E", "n", "t", "r", "y">>
sGo == <<"G", "o">>
sSQL == <<"S", "Q", "L">>
sC == <<"C">>

Job1 ==
  [id |-> <<"1">>, title |-> sDev, company |-> sAcme, location |-> sRemote,
   remote |-> TRUE, visa_sponsorship |-> FALSE, experience_level |-> sSenior,
   tech_stack |-> <<sGo, sSQL>>]

Job2 ==
  [id |-> <<"2">>, title |-> sSRE, company |-> sBolt, location |-> sNYC,
   remote |-> FALSE, visa_sponsorship |-> TRUE, experience_level |-> sMid,
   tech_stack |-> <<sGo, sC>>]

Job3 ==
  [id |-> <<"a">>, title |-> sDev, company |-> sacme, location |-> sRemote,
   remote |-> TRUE, visa_sponsorship |-> TRUE, experience_level |-> sMidSenior,
   tech_stack |-> <<sSQL>>]

\* a second record carrying the id of Job1 (the loader does not check ids)
Job4 ==
  [id |-> <<"1">>, title |-> sQA, company |-> sBolt, location |-> sNYC,
   remote |-> FALSE, visa_sponsorship |-> FALSE, experience_level |-> sEntry,
   tech_stack |-> <<>>]

JobPool == {Job1, Job2, Job3, Job4}

\* the jobs arrays the data source can return: up to MaxJobs distinct records
JobLists ==
  UNION {{l \in [1..n -> JobPool] : \A i, j \in 1..n : i # j => l[i] # l[j]} :
           n \in 0..MaxJobs}

\* the jobs arrays the data source returns while calls race for the load
SampleJobs == <<Job1, Job2, Job4, Job3>>

LoadLists ==
  {SubSeq(SampleJobs, 1, n) : n \in 0..(IF MaxJobs < 4 THEN MaxJobs ELSE 4)}

----------------------------------------------------------------------------
(* Results of a call: a returned text, or a raised exception.              *)
(* A text is a sequence whose first element is its first character:        *)
(* json.dumps of a dict is "{" members "}", a message is its characters.   *)

Return(text) == [raised |-> FALSE, text |-> text, error |-> ""]

Raise(e) == [raised |-> TRUE, text |-> <<>>, error |-> e]

\* json.dumps(value, indent=2) of a dict
JsonDumps(value) == <<"{", value, "}">>

\* json.loads(text): the value of a serialised dict; any text that does not
\* start a JSON value raises JSONDecodeError
JsonLoads(text) ==
  IF text # <<>> /\ text[1] = "{"
  THEN [raised |-> FALSE, value |-> text[2], error |-> ""]
  ELSE [raised |-> TRUE, value |-> <<>>, error |-> "JSONDecodeError"]

\* dict.get(key, default)
Get(d, key, default) == IF key \in DOMAIN d THEN d[key] ELSE default

----------------------------------------------------------------------------
(* The query tools of JobPostingServer, over self.jobs_data = store.       *)

\* the f-string of _search_jobs, lower-cased
SearchableText(job) ==
  Lower(job.title \o Space \o job.company \o Space \o job.location
        \o Space \o Join(job.tech_stack, Space))

\* Appended with the text query left unchecked
AppendedQueryUnchecked(job, arguments) ==
  LET location_filter == Lower(Get(arguments, "location", EmptyStr))
      experience_filter == Lower(Get(arguments, "experience_level", EmptyStr))
  IN  /\ location_filter # <<>> => Contains(location_filter, Lower(job.location))
      /\ "remote" \in DOMAIN arguments => job.remote = arguments["remote"]
      /\ "visa_sponsorship" \in DOMAIN arguments
           => job.visa_sponsorship = arguments["visa_sponsorship"]
      /\ experience_filter # <<>>
           => Contains(experience_filter, Lower(job.experience_level))

\* Appended with the remote filter tested for truth (`if remote_filter and`)
\* instead of `is not None`
AppendedRemoteFalsy(job, arguments) ==
  /\ AppendedQueryUnchecked(job, [k \in DOMAIN arguments \ {"remote"} |-> arguments[k]])
  /\ LET query == Lower(Get(arguments, "query", EmptyStr))
     IN  query # <<>> => Contains(query, SearchableText(job))
  /\ ("remote" \in DOMAIN arguments /\ arguments["remote"]) => job.remote

\* Appended with the remote filter read as arguments.get("remote", False)
AppendedRemoteDefault(job, arguments) ==
  /\ AppendedQueryUnchecked(job, [k \in DOMAIN arguments \ {"remote"} |-> arguments[k]])
  /\ LET query == Lower(Get(arguments, "query", EmptyStr))
     IN  query # <<>> => Contains(query, SearchableText(job))
  /\ job.remote = Get(arguments, "remote", FALSE)

\* one pass of the loop body of _search_jobs: TRUE when no `continue` is
\* taken and the job is appended
Appended(job, arguments) ==
  LET query == Lower(Get(arguments, "query", EmptyStr))
      location_filter == Lower(Get(arguments, "location", EmptyStr))
      experience_filter == Lower(Get(arguments, "experience_level", EmptyStr))
  IN  IF query # <<>> /\ ~Contains(query, SearchableText(job)) THEN FALSE
      ELSE IF location_filter # <<>>
              /\ ~Contains(location_filter, Lower(job.location)) THEN FALSE
      ELSE IF "remote" \in DOMAIN arguments
              /\ job.remote # arguments["remote"] THEN FALSE
      ELSE IF "visa_sponsorship" \in DOMAIN arguments
              /\ job.visa_sponsorship # arguments["visa_sponsorship"] THEN FALSE
      ELSE IF experience_filter # <<>>
              /\ ~Contains(experience_filter, Lower(job.experience_level))
           THEN FALSE
      ELSE TRUE

\* the for loop of _search_jobs from position i on, filtered_jobs so far
RECURSIVE SearchLoop(_, _, _, _)
SearchLoop(store, arguments, i, filtered_jobs) ==
  IF i > Len(store) THEN filtered_jobs
  ELSE SearchLoop(store, arguments, i + 1,
                  IF Appended(store[i], arguments)
                  THEN Append(filtered_jobs, store[i])
                  ELSE filtered_jobs)

SearchJobs(store, arguments) ==
  LET filtered_jobs == SearchLoop(store, arguments, 1, <<>>)
  IN  Return(JsonDumps([total_results |-> Len(filtered_jobs),
                        jobs |-> filtered_jobs]))

\* NextMatch comparing ids without regard to case
RECURSIVE NextMatchIgnoreCase(_, _, _)
NextMatchIgnoreCase(store, job_id, i) ==
  IF i > Len(store) THEN 0
  ELSE IF Lower(store[i].id) = Lower(job_id) THEN i
  ELSE NextMatchIgnoreCase(store, job_id, i + 1)

\* next((j for j in self.jobs_data if j["id"] == job_id), None):
\* the position of the first match, 0 for None
RECURSIVE NextMatch(_, _, _)
NextMatch(store, job_id, i) ==
  IF i > Len(store) THEN 0
  ELSE IF store[i].id = job_id THEN i
  ELSE NextMatch(store, job_id, i + 1)

NotFoundText(job_id) ==
  <<"J", "o", "b", " ", "w", "i", "t", "h", " ", "I", "D", " ", "'">>
  \o job_id
  \o <<"'", " ", "n", "o", "t", " ", "f", "o", "u", "n", "d">>

GetJobDetails(store, arguments) ==
  IF "job_id" \notin DOMAIN arguments \/ arguments["job_id"] = <<>>
  THEN Raise("ValueError: job_id is required")
  ELSE LET job_id == arguments["job_id"]
           k == NextMatch(store, job_id, 1)
       IN  IF k = 0 THEN Return(NotFoundText(job_id))
           ELSE Return(JsonDumps(store[k]))

ListAllJobs(store) ==
  Return(JsonDumps([total_jobs |-> Len(store), jobs |-> store]))

GetCompanies(store) ==
  LET companies == Sorted({store[i].company : i \in DOMAIN store})
  IN  Return(JsonDumps([total_companies |-> Len(companies),
                        companies |-> companies]))

GetTechStacks(store) ==
  LET all_techs == UNION {{store[i].tech_stack[k] :
                             k \in DOMAIN store[i].tech_stack} :
                          i \in DOMAIN store}
      techs == Sorted(all_techs)
  IN  Return(JsonDumps([total_technologies |-> Len(techs),
                        technologies |-> techs]))

----------------------------------------------------------------------------
(* The data source: what requests.get(JOBS_API_URL, timeout=10) yields.    *)
(* exc is the exception requests.get raises ("" for none), body the parsed *)
(* document: is_json says whether response.json() parses it, is_dict       *)
(* whether the document is a JSON object, data the object's members.       *)

Response(exc, status_code, is_json, is_dict, data) ==
  [exc |-> exc, status_code |-> status_code, is_json |-> is_json,
   is_dict |-> is_dict, data |-> data]

NoResponse == Response("none", 0, FALSE, FALSE, <<>>)

FailedResponses ==
  {Response("ConnectionError", 0, FALSE, FALSE, <<>>),
   Response("Timeout", 0, FALSE, FALSE, <<>>),
   Response("", 500, FALSE, FALSE, <<>>),
   Response("", 200, FALSE, FALSE, <<>>),
   Response("", 200, TRUE, FALSE, <<>>)}

\* a JSON object without a jobs member
NoJobsResponse == Response("", 200, TRUE, TRUE, <<>>)

JobsResponse(jobs) == Response("", 200, TRUE, TRUE, [jobs |-> jobs])

ResponsesOf(lists) ==
  FailedResponses \cup {NoJobsResponse} \cup {JobsResponse(jobs) : jobs \in lists}

\* the try block of _load_jobs_data on an empty store
Fetch(resp) ==
  IF resp.exc # "" THEN [raised |-> TRUE, error |-> resp.exc, jobs_data |-> <<>>]
  ELSE IF resp.status_code >= 400
       THEN [raised |-> TRUE, error |-> "HTTPError", jobs_data |-> <<>>]
  ELSE IF ~resp.is_json
       THEN [raised |-> TRUE, error |-> "JSONDecodeError", jobs_data |-> <<>>]
  ELSE IF ~resp.is_dict
       THEN [raised |-> TRUE, error |-> "AttributeError", jobs_data |-> <<>>]
  ELSE [raised |-> FALSE, error |-> "",
        jobs_data |-> Get(resp.data, "jobs", <<>>)]

\* LoadJobsData with the exception logged and not raised again
LoadJobsDataSwallow(store, resp) ==
  IF store = <<>>
  THEN LET f == Fetch(resp)
       IN  [fetched |-> TRUE, raised |-> FALSE, error |-> "",
            jobs_data |-> IF f.raised THEN store ELSE f.jobs_data]
  ELSE [fetched |-> FALSE, raised |-> FALSE, error |-> "", jobs_data |-> store]

\* _load_jobs_data: fetched says whether requests.get was called, jobs_data
\* is self.jobs_data afterwards
LoadJobsData(store, resp) ==
  IF store = <<>>
  THEN LET f == Fetch(resp)
       IN  [fetched |-> TRUE, raised |-> f.raised, error |-> f.error,
            jobs_data |-> IF f.raised THEN store ELSE f.jobs_data]
  ELSE [fetched |-> FALSE, raised |-> FALSE, error |-> "", jobs_data |-> store]

----------------------------------------------------------------------------
(* Tool calls.                                                             *)

ToolNames ==
  {"search_jobs", "get_job_details", "list_all_jobs", "get_companies",
   "get_tech_stacks"}

\* the if/elif chain of handle_call_tool after the load
Dispatch(store, name, arguments) ==
  IF name = "search_jobs" THEN SearchJobs(store, arguments)
  ELSE IF name = "get_job_details" THEN GetJobDetails(store, arguments)
  ELSE IF name = "list_all_jobs" THEN ListAllJobs(store)
  ELSE IF name = "get_companies" THEN GetCompanies(store)
  ELSE IF name = "get_tech_stacks" THEN GetTechStacks(store)
  ELSE Raise("ValueError: Unknown tool")

\* handle_call_tool of server.py: the load, then the dispatch
HandleCallTool(store, name, arguments, resp) ==
  LET l == LoadJobsData(store, resp)
  IN  [fetched |-> l.fetched, load_raised |-> l.raised, jobs_data |-> l.jobs_data,
       result |-> IF l.raised THEN Raise(l.error)
                  ELSE Dispatch(l.jobs_data, name, arguments)]

----------------------------------------------------------------------------
(* The HTTP routes of web_server.py over job_server.jobs_data = store.     *)

Http(status_code, body) == [status_code |-> status_code, body |-> body]

NoHttp == Http(0, <<>>)

\* the try/except of every route: json.loads of the engine's text, and
\* HTTPException(status_code=500, detail=str(e)) for anything raised
RouteResponse(engine) ==
  IF engine.raised THEN Http(500, [detail |-> engine.error])
  ELSE LET v == JsonLoads(engine.text)
       IN  IF v.raised THEN Http(500, [detail |-> v.error])
           ELSE Http(200, v.value)

\* search_jobs: the args dict built from the query parameters
SearchRouteArgs(params) ==
  LET query == Get(params, "query", EmptyStr)
      location == Get(params, "location", EmptyStr)
      experience_level == Get(params, "experience_level", EmptyStr)
  IN  [k \in {"query"} |-> query]
      @@ (IF location # <<>> THEN [k \in {"location"} |-> location] ELSE <<>>)
      @@ (IF "remote" \in DOMAIN params
          THEN [k \in {"remote"} |-> params["remote"]] ELSE <<>>)
      @@ (IF "visa_sponsorship" \in DOMAIN params
          THEN [k \in {"visa_sponsorship"} |-> params["visa_sponsorship"]]
          ELSE <<>>)
      @@ (IF experience_level # <<>>
          THEN [k \in {"experience_level"} |-> experience_level] ELSE <<>>)

\* the engine call each route makes; path is the route, params its query
\* parameters (for /jobs/{job_id}: the path parameter)
RouteEngine(store, path, params) ==
  IF path = "/jobs" THEN ListAllJobs(store)
  ELSE IF path = "/jobs/search" THEN SearchJobs(store, SearchRouteArgs(params))
  ELSE IF path = "/jobs/{job_id}"
       THEN GetJobDetails(store, [k \in {"job_id"} |-> params["job_id"]])
  ELSE IF path = "/companies" THEN GetCompanies(store)
  ELSE GetTechStacks(store)

----------------------------------------------------------------------------
(* The HTTP-backed tools of client_server.py.                              *)

\* f"Error: {str(e)}": the characters of "Error: ", then the message
ErrorText(message) == <<"E", "r", "r", "o", "r", ":", " ", message>>

\* str(e) of the HTTPError that raise_for_status raises
HTTPErrorMessage(status_code, path, params) ==
  <<"HTTPError", status_code, path, params>>

\* _search_jobs: the params dict built from the tool arguments
ClientSearchParams(arguments) ==
  (IF Get(arguments, "query", EmptyStr) # <<>>
   THEN [k \in {"query"} |-> arguments["query"]] ELSE <<>>)
  @@ (IF Get(arguments, "location", EmptyStr) # <<>>
      THEN [k \in {"location"} |-> arguments["location"]] ELSE <<>>)
  @@ (IF "remote" \in DOMAIN arguments
      THEN [k \in {"remote"} |-> arguments["remote"]] ELSE <<>>)
  @@ (IF "visa_sponsorship" \in DOMAIN arguments
      THEN [k \in {"visa_sponsorship"} |-> arguments["visa_sponsorship"]]
      ELSE <<>>)
  @@ (IF Get(arguments, "experience_level", EmptyStr) # <<>>
      THEN [k \in {"experience_level"} |-> arguments["experience_level"]]
      ELSE <<>>)

\* the route and parameters of the tool's requests.get; path "" when the
\* tool raises before any request
ClientRequest(name, arguments) ==
  IF name = "search_jobs"
  THEN [path |-> "/jobs/search", params |-> ClientSearchParams(arguments)]
  ELSE IF name = "get_job_details"
  THEN IF Get(arguments, "job_id", EmptyStr) = <<>>
       THEN [path |-> "", params |-> <<>>]
       ELSE [path |-> "/jobs/{job_id}",
             params |-> [k \in {"job_id"} |-> arguments["job_id"]]]
  ELSE IF name = "list_all_jobs" THEN [path |-> "/jobs", params |-> <<>>]
  ELSE IF name = "get_companies" THEN [path |-> "/companies", params |-> <<>>]
  ELSE IF name = "get_tech_stacks"
  THEN [path |-> "/technologies", params |-> <<>>]
  ELSE [path |-> "", params |-> <<>>]

\* handle_call_tool of client_server.py, given the HTTP response its
\* request received (up says whether the API answers at all): the tool's
\* text, or "Error: ..." for anything raised
ClientCallToolResult(name, arguments, up, http) ==
  LET rq == ClientRequest(name, arguments)
  IN  IF name \notin ToolNames THEN Return(ErrorText("Unknown tool"))
      ELSE IF rq.path = "" THEN Return(ErrorText("job_id is required"))
      ELSE IF ~up THEN Return(ErrorText("ConnectionError"))
      ELSE IF http.status_code >= 400
           THEN Return(ErrorText(HTTPErrorMessage(http.status_code, rq.path,
                                                  rq.params)))
      ELSE Return(JsonDumps(http.body))

----------------------------------------------------------------------------
(* Inputs.                                                                 *)

\* the dicts holding key with one of values, or not holding it
Optional(key, values) == {<<>>} \cup {[k \in {key} |-> v] : v \in values}

QueryValues ==
  {EmptyStr, <<"A", "c", "M", "e">>, <<"e", " ", "r">>, <<"C", " ">>, sGo}
LocationValues == {EmptyStr, <<"r", "e", "m">>}
ExperienceValues == {EmptyStr, <<"S", "E", "N", "I", "O", "R">>}
JobIdValues == {EmptyStr, <<"1">>, <<"a">>, <<"A">>, <<"9">>}

\* every criteria dict of search_jobs over the values above
SearchArguments ==
  {q @@ l @@ r @@ v @@ e :
     q \in Optional("query", QueryValues),
     l \in Optional("location", LocationValues),
     r \in Optional("remote", BOOLEAN),
     v \in Optional("visa_sponsorship", BOOLEAN),
     e \in Optional("experience_level", ExperienceValues)}

DetailArguments == Optional("job_id", JobIdValues)

Request(name, arguments) == [name |-> name, arguments |-> arguments]

\* every request of the query tools
Requests ==
  {Request("search_jobs", a) : a \in SearchArguments}
  \cup {Request("get_job_details", a) : a \in DetailArguments}
  \cup {Request(n, <<>>) :
          n \in {"list_all_jobs", "get_companies", "get_tech_stacks",
                 "no_such_tool"}}

\* the requests a client sends while the server loads
CallRequests ==
  {Request("search_jobs", <<>>),
   Request("search_jobs", [remote |-> FALSE]),
   Request("get_job_details", <<>>),
   Request("get_job_details", [job_id |-> EmptyStr]),
   Request("get_job_details", [job_id |-> <<"1">>]),
   Request("list_all_jobs", <<>>),
   Request("get_companies", <<>>),
   Request("get_tech_stacks", <<>>),
   Request("no_such_tool", <<>>)}

----------------------------------------------------------------------------
(* State.                                                                  *)
(*   deployment  which program runs: "stdio" is server.py's main(),      *)
(*               "web" is web_server.py with client_server.py in front     *)
(*   jobs_data   self.jobs_data of the JobPostingServer                    *)
(*   fetchCount  number of requests.get calls made to JOBS_API_URL         *)
(*   calls       the tool calls of the run: received, being handled, done  *)
(*   started     web_server.py: startup() has completed                    *)
(*   crashed     web_server.py: startup() raised                           *)
(*   request     the request a query run applies the tools to              *)
(*   last        the last completed operation and what it delivered        *)

CallIds == 1..MaxCalls

IdleCall ==
  [st |-> "idle", arr_empty |-> FALSE, with |-> {}, fetched |-> FALSE,
   response |-> NoResponse, raised |-> FALSE, seen |-> <<>>]

NoRequest == Request("none", <<>>)

NoResult == Raise("none")

\* op: the operation; call: the tool call it served; name, arguments: its
\* request; pre: jobs_data before it; fetched, response: whether it called
\* the data source and what that answered; engine: what the
\* JobPostingServer method returned or raised; http: the HTTP response of
\* web_server.py; result: what the tool call delivered
Last(op, call, req, pre, fetched, resp, engine, http, result) ==
  [op |-> op, call |-> call, name |-> req.name, arguments |-> req.arguments,
   pre |-> pre, fetched |-> fetched, response |-> resp, engine |-> engine,
   http |-> http, result |-> result]

NoLast ==
  Last("none", 0, NoRequest, <<>>, FALSE, NoResponse, NoResult, NoHttp, NoResult)

\* server.py's main(): a JobPostingServer is constructed, no call received
Init ==
  /\ deployment = "stdio"
  /\ jobs_data = <<>>
  /\ fetchCount = 0
  /\ calls = [c \in CallIds |-> IdleCall]
  /\ started = FALSE
  /\ crashed = FALSE
  /\ request = NoRequest
  /\ last = NoLast

----------------------------------------------------------------------------
(* The tool-protocol server (server.py).  The framework starts one task    *)
(* per call_tool request on one event loop.  handle_call_tool has no       *)
(* suspension point: requests.get blocks the loop and awaiting the         *)
(* server's own coroutines does not yield, so a started handler runs to    *)
(* its end before another one starts.                                      *)

Pending == {c \in CallIds : calls[c].st = "pending"}

\* a call_tool request is received; its handler task is scheduled
Arrive(c) ==
  /\ deployment = "stdio"
  /\ calls[c].st = "idle"
  /\ \A d \in CallIds : d < c => calls[d].st # "idle"
  /\ calls' = [calls EXCEPT ![c] =
                 [@ EXCEPT !.st = "pending", !.arr_empty = (jobs_data = <<>>),
                           !.with = Pending]]
  /\ UNCHANGED <<deployment, jobs_data, fetchCount, started, crashed, request, last>>

\* the handler task of call c runs; resp is what the data source answers
\* if the handler fetches
CallTool(c, req, resp) ==
  /\ calls[c].st = "pending"
  /\ LET h == HandleCallTool(jobs_data, req.name, req.arguments, resp)
     IN  /\ h.fetched = (resp # NoResponse)
         /\ jobs_data' = h.jobs_data
         /\ fetchCount' = IF h.fetched THEN fetchCount + 1 ELSE fetchCount
         /\ calls' = [calls EXCEPT ![c] =
                        [@ EXCEPT !.st = "done", !.fetched = h.fetched,
                                  !.response = resp, !.raised = h.load_raised,
                                  !.seen = h.jobs_data]]
         /\ last' = Last("call_tool", c, req, jobs_data, h.fetched, resp,
                         h.result, NoHttp, h.result)
  /\ UNCHANGED <<deployment, started, crashed, request>>

Next ==
  \/ \E c \in CallIds : Arrive(c)
  \/ \E c \in CallIds, req \in CallRequests,
        resp \in ResponsesOf(LoadLists) \cup {NoResponse} : CallTool(c, req, resp)

Spec == Init /\ [][Next]_vars

----------------------------------------------------------------------------
(* Claims about the load (server.py, _load_jobs_data and handle_call_tool). *)

Done == {c \in CallIds : calls[c].st = "done"}

\* the load of call c fetched a document that has a jobs array
LoadedJobsArray(c) ==
  /\ calls[c].st = "done"
  /\ calls[c].fetched
  /\ ~calls[c].raised
  /\ "jobs" \in DOMAIN calls[c].response.data

\* C1: once a load has completed on a successful fetch response with a jobs
\* array (an empty array included), a following load performs no fetch and
\* leaves the record set as it was, so the fetch count stays at 1.
C1_LoadIdempotent ==
  (/\ last.op = "call_tool"
   /\ \E d \in Done \ {last.call} : LoadedJobsArray(d))
  => (~last.fetched /\ jobs_data = last.pre)

\* C2: two calls that were in flight together before the store was
\* populated cause at most one fetch between them and observe the same
\* record set or the same failure.
C2_SingleFlight ==
  \A c, d \in Done :
    (c \in calls[d].with /\ calls[d].arr_empty)
    => /\ ~(calls[c].fetched /\ calls[d].fetched)
       /\ calls[c].raised = calls[d].raised
       /\ calls[c].seen = calls[d].seen

\* the last operation was a load whose fetch failed
LastFetchFailed ==
  /\ last.op = "call_tool"
  /\ last.fetched
  /\ Fetch(last.response).raised

\* C3: when the fetch fails, the load raises the error to its caller, the
\* store is left empty and unchanged, and the next load fetches again.
C3_FailedFetchPropagates ==
  LastFetchFailed
  => /\ last.result.raised
     /\ last.result.error = Fetch(last.response).error
     /\ jobs_data = <<>>
     /\ jobs_data = last.pre
     /\ \A r \in ResponsesOf(LoadLists) : LoadJobsData(jobs_data, r).fetched

\* a fetch failed and the call after it fetched again
C3_Witness ==
  /\ LastFetchFailed
  /\ last.response.status_code = 500
  /\ \E d \in Done \ {last.call} : calls[d].fetched /\ calls[d].raised

\* C4: a fetched document without a jobs array makes the load fail; the
\* call never goes on to answer from an empty store.
C4_MissingJobsRaises ==
  (/\ last.op = "call_tool"
   /\ last.fetched
   /\ ~Fetch(last.response).raised
   /\ "jobs" \notin DOMAIN last.response.data)
  => last.result.raised

\* C10: get_job_details without a job_id (absent or empty) raises the
\* argument error before the store is touched: no fetch, store unchanged.
C10_ArgumentErrorBeforeLoad ==
  (/\ last.op = "call_tool"
   /\ last.name = "get_job_details"
   /\ Get(last.arguments, "job_id", EmptyStr) = EmptyStr)
  => /\ last.result.raised
     /\ last.result.error = "ValueError: job_id is required"
     /\ ~last.fetched
     /\ jobs_data = last.pre

----------------------------------------------------------------------------
(* Query runs: one request, drawn from Requests, is put to the             *)
(* tool-protocol server (deployment "stdio") or to the HTTP API and the    *)
(* client in front of it (deployment "web").                               *)

QueryInit ==
  /\ deployment \in {"stdio", "web"}
  /\ jobs_data = <<>>
  /\ fetchCount = 0
  /\ calls = [c \in CallIds |-> IdleCall]
  /\ started = FALSE
  /\ crashed = FALSE
  /\ request \in Requests
  /\ last = NoLast

\* web_server.py startup(): the server object is made and loaded; when the
\* load raises, the application does not start
Startup(resp) ==
  /\ deployment = "web"
  /\ ~started /\ ~crashed
  /\ LET l == LoadJobsData(jobs_data, resp)
     IN  /\ l.fetched = (resp # NoResponse)
         /\ jobs_data' = l.jobs_data
         /\ fetchCount' = IF l.fetched THEN fetchCount + 1 ELSE fetchCount
         /\ started' = ~l.raised
         /\ crashed' = l.raised
         /\ last' = Last("startup", 0, NoRequest, jobs_data, l.fetched, resp,
                         IF l.raised THEN Raise(l.error) ELSE NoResult,
                         NoHttp, NoResult)
  /\ UNCHANGED <<deployment, calls, request>>

\* a GET on one route of the running API
Route(path, params) ==
  /\ deployment = "web"
  /\ started
  /\ LET engine == RouteEngine(jobs_data, path, params)
     IN  last' = Last("http", 0, Request(path, params), jobs_data, FALSE,
                      NoResponse, engine, RouteResponse(engine), NoResult)
  /\ UNCHANGED <<deployment, jobs_data, fetchCount, calls, started, crashed, request>>

ListJobs == Route("/jobs", <<>>)

SearchJobsRoute ==
  /\ request.name = "search_jobs"
  /\ Route("/jobs/search", request.arguments)

\* the path parameter of /jobs/{job_id} is never empty
GetJob ==
  /\ request.name = "get_job_details"
  /\ Get(request.arguments, "job_id", EmptyStr) # <<>>
  /\ Route("/jobs/{job_id}", request.arguments)

GetCompaniesRoute == Route("/companies", <<>>)

GetTechnologies == Route("/technologies", <<>>)

\* a tool call to client_server.py, which asks the API
ClientCallTool ==
  /\ deployment = "web"
  /\ started \/ crashed
  /\ LET rq == ClientRequest(request.name, request.arguments)
         engine == IF started /\ rq.path # ""
                   THEN RouteEngine(jobs_data, rq.path, rq.params)
                   ELSE NoResult
         http == IF started /\ rq.path # "" THEN RouteResponse(engine) ELSE NoHttp
     IN  last' = Last("client", 0, request, jobs_data, FALSE, NoResponse, engine,
                      http,
                      ClientCallToolResult(request.name, request.arguments,
                                           started, http))
  /\ UNCHANGED <<deployment, jobs_data, fetchCount, calls, started, crashed, request>>

QueryNext ==
  \/ Arrive(1)
  \/ \E resp \in ResponsesOf(JobLists) \cup {NoResponse} : CallTool(1, request, resp)
  \/ \E resp \in ResponsesOf(JobLists) \cup {NoResponse} : Startup(resp)
  \/ ListJobs
  \/ SearchJobsRoute
  \/ GetJob
  \/ GetCompaniesRoute
  \/ GetTechnologies
  \/ ClientCallTool

QuerySpec == QueryInit /\ [][QueryNext]_vars

----------------------------------------------------------------------------
(* Claims about the query tools (server.py _search_jobs, _get_job_details, *)
(* _list_all_jobs) and their adapters.                                     *)

\* the last operation ran _search_jobs to its end
Searched ==
  \/ last.op = "call_tool" /\ last.name = "search_jobs" /\ ~last.engine.raised
  \/ last.op = "http" /\ last.name = "/jobs/search"
  \/ last.op = "client" /\ last.name = "search_jobs" /\ started

\* the criteria _search_jobs received
Criteria ==
  IF last.op = "call_tool" THEN last.arguments
  ELSE IF last.op = "http" THEN SearchRouteArgs(last.arguments)
  ELSE SearchRouteArgs(ClientSearchParams(last.arguments))

\* the dict _search_jobs serialised
SearchResult == last.engine.text[2]

\* criteria holds a non-empty string under key
Given(criteria, key) == key \in DOMAIN criteria /\ criteria[key] # EmptyStr

\* the single fields a text query is said to be looked for in
Fields(job) ==
  {job.title, job.company, job.location}
  \cup {job.tech_stack[k] : k \in DOMAIN job.tech_stack}

\* title, company, location and the space-joined tech stack, with one
\* space between them
JoinedFields(job) ==
  job.title \o <<" ">> \o job.company \o <<" ">> \o job.location \o <<" ">>
  \o Join(job.tech_stack, <<" ">>)

\* C5 as stated: with a non-empty query, every returned record contains
\* the query, case-insensitively, in at least one single field (title,
\* company, location or one tech stack entry).
C5_QueryInOneField ==
  (Searched /\ Given(Criteria, "query"))
  => \A i \in DOMAIN SearchResult.jobs :
       \E f \in Fields(SearchResult.jobs[i]) :
         Contains(Lower(Criteria["query"]), Lower(f))

\* C5 amended: with a non-empty query, every returned record contains the
\* query, case-insensitively, in the text made of its title, company,
\* location and space-joined tech stack entries, each followed by a space
\* before the next.
C5_QueryInJoinedFields ==
  (Searched /\ Given(Criteria, "query"))
  => \A i \in DOMAIN SearchResult.jobs :
       Contains(Lower(Criteria["query"]), Lower(JoinedFields(SearchResult.jobs[i])))

\* a query that matches only across two fields returned a record
C5_Witness ==
  /\ Searched
  /\ Given(Criteria, "query")
  /\ Criteria["query"] = <<"e", " ", "r">>
  /\ SearchResult.total_results > 0

\* what each filter of a criteria dict asks of a record
Satisfies(job, criteria) ==
  /\ Given(criteria, "query")
       => Contains(Lower(criteria["query"]), Lower(JoinedFields(job)))
  /\ Given(criteria, "location")
       => Contains(Lower(criteria["location"]), Lower(job.location))
  /\ "remote" \in DOMAIN criteria => job.remote = criteria["remote"]
  /\ "visa_sponsorship" \in DOMAIN criteria
       => job.visa_sponsorship = criteria["visa_sponsorship"]
  /\ Given(criteria, "experience_level")
       => Contains(Lower(criteria["experience_level"]), Lower(job.experience_level))

\* C6: a search returns exactly the records that satisfy every filter
\* given, in store order, and total_results is their number; a boolean
\* filter given as false is a constraint, an absent boolean and an absent
\* or empty string are none.
C6_SearchIsConjunctiveFilter ==
  Searched
  => LET Test(job) == Satisfies(job, Criteria)
     IN  /\ SearchResult.jobs = SelectSeq(jobs_data, Test)
         /\ SearchResult.total_results = Len(SearchResult.jobs)

\* on a store whose only job is remote, search({remote: false}) returned
\* no record
C6_Witness ==
  /\ Searched
  /\ last.op = "call_tool"
  /\ DOMAIN Criteria = {"remote"}
  /\ Criteria["remote"] = FALSE
  /\ jobs_data = <<Job1>>
  /\ SearchResult.total_results = 0

\* criteria imposes no filter
NoFilters(criteria) ==
  /\ "remote" \notin DOMAIN criteria
  /\ "visa_sponsorship" \notin DOMAIN criteria
  /\ \A key \in {"query", "location", "experience_level"} : ~Given(criteria, key)

\* C7: a search without filters (no criteria, or the HTTP route's default
\* empty query) returns the records of list_all_jobs in the same order,
\* and total_results equals total_jobs; the HTTP responses agree as well.
C7_NoFilterSearchIsListAll ==
  (Searched /\ NoFilters(Criteria))
  => LET all == ListAllJobs(jobs_data).text[2]
     IN  /\ SearchResult.jobs = all.jobs
         /\ SearchResult.total_results = all.total_jobs
         /\ last.op = "http"
              => LET listed == RouteResponse(RouteEngine(jobs_data, "/jobs", <<>>))
                 IN  /\ last.http.status_code = listed.status_code
                     /\ last.http.body.jobs = listed.body.jobs
                     /\ last.http.body.total_results = listed.body.total_jobs

\* GET /jobs/search without parameters answered from a store of two records
C7_Witness ==
  /\ Searched
  /\ last.op = "http"
  /\ last.arguments = <<>>
  /\ DOMAIN Criteria = {"query"}
  /\ Len(jobs_data) >= 2
  /\ last.http.body.total_results = Len(jobs_data)

\* the last operation ran _get_job_details with a non-empty job_id
LookedUp ==
  /\ \/ last.op = "call_tool" /\ last.name = "get_job_details" /\ ~last.fetched
     \/ last.op = "call_tool" /\ last.name = "get_job_details"
          /\ ~Fetch(last.response).raised
     \/ last.op = "http" /\ last.name = "/jobs/{job_id}"
  /\ Get(last.arguments, "job_id", EmptyStr) # EmptyStr

\* the positions of the records whose id is job_id
IdMatches(job_id) == {i \in DOMAIN jobs_data : jobs_data[i].id = job_id}

\* C8: a lookup returns the first record in store order whose id equals
\* the given one exactly (case-sensitively); when there is none it returns
\* normally, with a text no successful lookup can return.
C8_GetByIdExactFirst ==
  LookedUp
  => LET job_id == last.arguments["job_id"]
         hits == IdMatches(job_id)
     IN  /\ ~last.engine.raised
         /\ hits # {}
              => /\ last.engine.text[1] = "{"
                 /\ last.engine.text[2] = jobs_data[CHOOSE i \in hits :
                                                      \A k \in hits : i <= k]
         /\ hits = {}
              => /\ last.engine.text[1] # "{"
                 /\ \A i \in DOMAIN jobs_data :
                      last.engine.text[1] # JsonDumps(jobs_data[i])[1]

\* a lookup of "A" on a store holding the record with id "a" found nothing
C8_Witness ==
  /\ LookedUp
  /\ last.arguments["job_id"] = <<"A">>
  /\ \E i \in DOMAIN jobs_data : jobs_data[i].id = <<"a">>
  /\ ~last.engine.raised
  /\ last.engine.text[1] # "{"

\* the lookup of the last operation matched no record of a populated store
Missed ==
  /\ jobs_data # <<>>
  /\ last.name \in {"/jobs/{job_id}", "get_job_details"}
  /\ Get(last.arguments, "job_id", EmptyStr) # EmptyStr
  /\ ~last.engine.raised
  /\ last.engine.text[1] # "{"

\* errors the engine can raise inside a lookup (j["id"] on a record
\* without id, iteration over a store that is no list)
InternalErrors == {"KeyError: 'id'", "TypeError: object is not iterable"}

\* C9: what the HTTP route, and the client tool in front of it, deliver
\* for an id that matches no record differs from what they deliver when
\* the engine raises an internal error.
C9_NotFoundDistinctFromFailure ==
  \A e \in InternalErrors :
    /\ (last.op = "http" /\ Missed) => last.http # RouteResponse(Raise(e))
    /\ (last.op = "client" /\ started /\ Missed)
         => last.result # ClientCallToolResult(last.name, last.arguments, TRUE,
                                               RouteResponse(Raise(e)))

----------------------------------------------------------------------------
(* Claims about the distinct-value tools (server.py _get_companies and     *)
(* _get_tech_stacks) and about the store after the load.                   *)

\* the last operation ran _get_companies / _get_tech_stacks to its end
ListedCompanies ==
  \/ last.op = "call_tool" /\ last.name = "get_companies" /\ ~last.engine.raised
  \/ last.op = "http" /\ last.name = "/companies"
  \/ last.op = "client" /\ last.name = "get_companies" /\ started

ListedTechnologies ==
  \/ last.op = "call_tool" /\ last.name = "get_tech_stacks" /\ ~last.engine.raised
  \/ last.op = "http" /\ last.name = "/technologies"
  \/ last.op = "client" /\ last.name = "get_tech_stacks" /\ started

\* a comes before b in the default order of str: at the first position
\* where they differ a has the lower code point, or a ends there
Before(a, b) ==
  \E k \in 1..(Len(b)) :
    /\ k <= Len(a) + 1
    /\ \A i \in 1..(k - 1) : a[i] = b[i]
    /\ k = Len(a) + 1 \/ Ord(a[k]) < Ord(b[k])

\* seq lists exactly the members of S, each once, in ascending order
AscendingListOf(seq, S) ==
  /\ {seq[i] : i \in DOMAIN seq} = S
  /\ \A i, j \in DOMAIN seq : i < j => Before(seq[i], seq[j])

CompaniesOf(store) == {store[i].company : i \in DOMAIN store}

TechnologiesOf(store) ==
  UNION {{store[i].tech_stack[k] : k \in DOMAIN store[i].tech_stack} :
           i \in DOMAIN store}

\* C11: get_companies returns exactly the company values of the records
\* and get_tech_stacks exactly their tech stack entries, each value once,
\* in ascending order, with the reported total equal to their number.
C11_DistinctSorted ==
  /\ ListedCompanies
       => LET r == last.engine.text[2]
          IN  /\ AscendingListOf(r.companies, CompaniesOf(jobs_data))
              /\ r.total_companies = Len(r.companies)
              /\ r.total_companies = Cardinality(CompaniesOf(jobs_data))
  /\ ListedTechnologies
       => LET r == last.engine.text[2]
          IN  /\ AscendingListOf(r.technologies, TechnologiesOf(jobs_data))
              /\ r.total_technologies = Len(r.technologies)
              /\ r.total_technologies = Cardinality(TechnologiesOf(jobs_data))

\* two jobs that share the entry Go and have one entry each of their own
\* were listed: C, Go, SQL
C11_Witness ==
  /\ ListedTechnologies
  /\ jobs_data = <<Job1, Job2>>
  /\ last.engine.text[2].technologies = <<sC, sGo, sSQL>>
  /\ last.engine.text[2].total_technologies = Cardinality({sC, sGo, sSQL})

\* C12: once a load has completed, the store's record sequence stays equal
\* to the one that load left, whatever calls and further loads follow, and
\* a loaded store never becomes empty again.
C12_StoreImmutableAfterLoad ==
  \A d \in Done : ~calls[d].raised => jobs_data = calls[d].seen

====
